---- MODULE Spec2Model ----
(***************************************************************************)
(* Model of src/server.js: an express application over two relational      *)
(* tables (posts, comments) and an upload directory.                        *)
(*                                                                          *)
(* Every handler is an async function.  It runs synchronously up to its     *)
(* first `await pool.query(...)`, the store executes the statement as one   *)
(* atomic step, and the continuation of the handler runs on the statement's *)
(* result.  A handler that writes is therefore one "Start" action (the      *)
(* synchronous prefix) and one "Db" action per statement (the statement     *)
(* together with the continuation that consumes its result).  Between two   *)
(* actions of one request the actions of any other request may run.         *)
(*                                                                          *)
(* The schema is not part of the source.  The model takes posts.id to be    *)
(* assigned 1, 2, ... by the store and comments.post_id to carry no foreign *)
(* key: the handler's 404 after its INSERT is reachable only without one.   *)
(* Date.now() of the server and the store's clock for created_at are one    *)
(* clock.                                                                   *)
(***************************************************************************)
EXTENDS Naturals, Sequences, FiniteSets, TLC

VARIABLES posts, comments, files, clock, reqs

vars == <<posts, comments, files, clock, reqs>>

----------------------------------------------------------------------------
(* Bounds of the model. *)

\* number of HTTP requests of one run
MaxReq == 3
\* post ids a client puts in the path are 1..MaxId
MaxId == 1
\* readings of the millisecond clock are 1..MaxClock
MaxClock == 2

Req == 1..MaxReq
Ids == 1..MaxId

----------------------------------------------------------------------------
(* Request inputs. Strings that the code inspects are sequences of         *)
(* characters.                                                              *)

NoFile == [present |-> FALSE, originalname |-> <<>>, mimetype |-> <<>>]

\* the file part of a multipart body: its original name and declared
\* content type
Files ==
    { [present |-> TRUE, originalname |-> <<"a", ".", "P">>,
       mimetype |-> <<"i", "m", "a", "g", "e", "/", "p">>],
      [present |-> TRUE, originalname |-> <<"b", ".", "p">>,
       mimetype |-> <<"v", "i", "d", "e", "o", "/", "m">>] }

\* JSON bodies of a comment request: text absent, text "", text "hi"
Bodies ==
    { [has |-> FALSE, text |-> ""],
      [has |-> TRUE,  text |-> ""],
      [has |-> TRUE,  text |-> "hi"] }

NoBody == [has |-> FALSE, text |-> ""]

----------------------------------------------------------------------------
(* Pure functions of the handlers. *)

\* String.prototype.startsWith
StartsWith(s, prefix) ==
    /\ Len(s) >= Len(prefix)
    /\ SubSeq(s, 1, Len(prefix)) = prefix

\* path.extname: from the last "." to the end; empty when there is no "."
\* or when the only "." is the first character
LastDot(s) ==
    IF \E i \in 1..Len(s) : s[i] = "."
    THEN CHOOSE i \in 1..Len(s) : s[i] = "." /\ \A j \in (i+1)..Len(s) : s[j] # "."
    ELSE 0

ExtName(s) == IF LastDot(s) <= 1 THEN <<>> ELSE SubSeq(s, LastDot(s), Len(s))

\* String.prototype.toLowerCase on the characters the inputs use
LowerChar(c) == IF c = "P" THEN "p" ELSE c

ToLowerCase(s) == [i \in 1..Len(s) |-> LowerChar(s[i])]

\* the decimal digits of a number, as a template literal prints it
DigitChar(d) == <<"0", "1", "2", "3", "4", "5", "6", "7", "8", "9">>[d + 1]

RECURSIVE Digits(_)
Digits(n) == IF n < 10 THEN <<DigitChar(n)>> ELSE Digits(n \div 10) \o <<DigitChar(n % 10)>>

\* multer.diskStorage filename: `${Date.now()}${fileExtension}`
FileName(now, originalname) == Digits(now) \o ToLowerCase(ExtName(originalname))

\* `/uploads/${req.file.filename}`
FileUrl(filename) == <<"/uploads/">> \o filename

\* mutant: the content type is compared with ===, not with startsWith
FileTypeExact(mimetype) ==
    IF mimetype = <<"i", "m", "a", "g", "e">> THEN "image" ELSE "video"

\* req.file.mimetype.startsWith("image") ? "image" : "video"
FileType(mimetype) ==
    IF StartsWith(mimetype, <<"i", "m", "a", "g", "e">>) THEN "image" ELSE "video"

\* mutant: the handler does not test req.file
FileMissingUnchecked(file) == FALSE

\* !req.file
FileMissing(file) == ~file.present

\* mutant: only an absent text is refused (text === undefined)
TextMissingAbsentOnly(body) == ~body.has

\* !text, for the text of the JSON body (absent, or the empty string)
TextMissing(body) == ~body.has \/ body.text = ""

----------------------------------------------------------------------------
(* The store's statements. A table is the sequence of its rows in id order; *)
(* the id is assigned by the store.                                         *)

\* INSERT INTO posts (url, type, likes, comments) VALUES ($1, $2, 0, 0)
InsertPost(ps, url, type) ==
    Append(ps, [id |-> Len(ps) + 1, url |-> url, type |-> type,
                likes |-> 0, comments |-> 0])

\* mutant: the handler writes back a count it computed from nothing
\* (SET likes = 1)
UpdateLikesSet(ps, id) ==
    [i \in DOMAIN ps |-> IF ps[i].id = id THEN [ps[i] EXCEPT !.likes = 1] ELSE ps[i]]

\* mutant: the statement creates the row it does not find (an upsert)
UpdateLikesUpsert(ps, id) ==
    IF \E i \in DOMAIN ps : ps[i].id = id
    THEN [i \in DOMAIN ps |-> IF ps[i].id = id THEN [ps[i] EXCEPT !.likes = @ + 1] ELSE ps[i]]
    ELSE Append(ps, [id |-> Len(ps) + 1, url |-> <<>>, type |-> "image",
                     likes |-> 1, comments |-> 0])

\* UPDATE posts SET likes = likes + 1 WHERE id = $1
UpdateLikes(ps, id) ==
    [i \in DOMAIN ps |-> IF ps[i].id = id THEN [ps[i] EXCEPT !.likes = @ + 1] ELSE ps[i]]

\* mutant: the statement has no WHERE clause
UpdateCommentsAll(ps, id) ==
    [i \in DOMAIN ps |-> [ps[i] EXCEPT !.comments = @ + 1]]

\* UPDATE posts SET comments = comments + 1 WHERE id = $1
UpdateComments(ps, id) ==
    [i \in DOMAIN ps |-> IF ps[i].id = id THEN [ps[i] EXCEPT !.comments = @ + 1] ELSE ps[i]]

\* the rows an UPDATE ... WHERE id = $1 RETURNING ... gives back, read in the
\* table after the update
Returning(ps, id) == SelectSeq(ps, LAMBDA row : row.id = id)

\* mutant: the row is inserted only for a post that exists
InsertCommentChecked(cs, postId, text, now) ==
    IF \E i \in DOMAIN posts : posts[i].id = postId
    THEN Append(cs, [id |-> Len(cs) + 1, post_id |-> postId, text |-> text,
                     created_at |-> now])
    ELSE cs

\* INSERT INTO comments (post_id, text) VALUES ($1, $2); created_at is the
\* store's clock reading
InsertComment(cs, postId, text, now) ==
    Append(cs, [id |-> Len(cs) + 1, post_id |-> postId, text |-> text,
                created_at |-> now])

\* SELECT * FROM posts ORDER BY id DESC
SelectPosts(ps) == [i \in 1..Len(ps) |-> ps[Len(ps) + 1 - i]]

\* mutant: ORDER BY created_at ASC
SelectCommentsAsc(cs, postId) ==
    LET match == {i \in DOMAIN cs : cs[i].post_id = postId}
        n     == Cardinality(match)
    IN  { [k \in 1..n |-> cs[f[k]]] :
            f \in { g \in [1..n -> match] :
                      /\ \A a, b \in 1..n : a # b => g[a] # g[b]
                      /\ \A a, b \in 1..n : a < b =>
                            cs[g[a]].created_at <= cs[g[b]].created_at } }

\* SELECT * FROM comments WHERE post_id = $1 ORDER BY created_at DESC:
\* every order of the matching rows that is descending in created_at (rows
\* of equal created_at come in any order)
SelectComments(cs, postId) ==
    LET match == {i \in DOMAIN cs : cs[i].post_id = postId}
        n     == Cardinality(match)
    IN  { [k \in 1..n |-> cs[f[k]]] :
            f \in { g \in [1..n -> match] :
                      /\ \A a, b \in 1..n : a # b => g[a] # g[b]
                      /\ \A a, b \in 1..n : a < b =>
                            cs[g[a]].created_at >= cs[g[b]].created_at } }

\* result.rows.length === 0 ? 404 : 200, in the like handler
LikeStatus(rows) == IF Len(rows) = 0 THEN 404 ELSE 200

\* result.rows.length === 0 ? 404 : 200, in the comment handler
CommentStatus(rows) == IF Len(rows) = 0 THEN 404 ELSE 200

\* multer's disk storage writes the bytes of the part under the file name;
\* a file of that name already in the directory is replaced
StoreFile(fs, filename, content) ==
    {f \in fs : f.name # filename} \cup {[name |-> filename, content |-> content]}

----------------------------------------------------------------------------
(* Requests. *)

NewReq ==
    [kind |-> "none", pc |-> "new", id |-> 0, body |-> NoBody, file |-> NoFile,
     filename |-> <<>>, status |-> 0, error |-> "", value |-> 0,
     rows |-> <<>>, url |-> <<>>]

\* a request starts when the requests before it have started
CanStart(r) ==
    /\ reqs[r].pc = "new"
    /\ r > 1 => reqs[r - 1].pc # "new"

Respond(r, rec) == reqs' = [reqs EXCEPT ![r] = rec]

Init ==
    /\ posts = <<>>
    /\ comments = <<>>
    /\ files = {}
    /\ clock = 1
    /\ reqs = [r \in Req |-> NewReq]

\* the millisecond clock advances
Tick ==
    /\ clock < MaxClock
    /\ clock' = clock + 1
    /\ UNCHANGED <<posts, comments, files, reqs>>

----------------------------------------------------------------------------
(* POST /api/upload *)

\* upload.single("file") stores the part, if there is one, and the handler
\* runs to its first await
StartUpload(r, file) ==
    /\ CanStart(r)
    /\ IF FileMissing(file)
       THEN /\ Respond(r, [reqs[r] EXCEPT !.kind = "upload", !.file = file,
                              !.pc = "done", !.status = 400,
                              !.error = "No file uploaded"])
            /\ UNCHANGED files
       ELSE /\ files' = StoreFile(files, FileName(clock, file.originalname), r)
            /\ Respond(r, [reqs[r] EXCEPT !.kind = "upload", !.file = file,
                              !.filename = FileName(clock, file.originalname),
                              !.pc = "insert_post"])
    /\ UNCHANGED <<posts, comments, clock>>

\* the INSERT into posts, and the response
DbInsertPost(r) ==
    /\ reqs[r].pc = "insert_post"
    /\ posts' = InsertPost(posts, FileUrl(reqs[r].filename),
                           FileType(reqs[r].file.mimetype))
    /\ Respond(r, [reqs[r] EXCEPT !.pc = "done", !.status = 200,
                      !.url = FileUrl(reqs[r].filename)])
    /\ UNCHANGED <<comments, files, clock>>

----------------------------------------------------------------------------
(* POST /api/posts/:id/like *)

StartLike(r, id) ==
    /\ CanStart(r)
    /\ Respond(r, [reqs[r] EXCEPT !.kind = "like", !.id = id,
                      !.pc = "update_likes"])
    /\ UNCHANGED <<posts, comments, files, clock>>

\* the UPDATE of likes, and the response
DbUpdateLikes(r) ==
    /\ reqs[r].pc = "update_likes"
    /\ posts' = UpdateLikes(posts, reqs[r].id)
    /\ LET rows == Returning(posts', reqs[r].id)
       IN  IF LikeStatus(rows) = 404
           THEN Respond(r, [reqs[r] EXCEPT !.pc = "done", !.status = 404,
                               !.error = "Post not found"])
           ELSE Respond(r, [reqs[r] EXCEPT !.pc = "done", !.status = 200,
                               !.value = rows[1].likes])
    /\ UNCHANGED <<comments, files, clock>>

----------------------------------------------------------------------------
(* POST /api/posts/:id/comment *)

StartComment(r, id, body) ==
    /\ CanStart(r)
    /\ IF TextMissing(body)
       THEN Respond(r, [reqs[r] EXCEPT !.kind = "comment", !.id = id,
                           !.body = body, !.pc = "done", !.status = 400,
                           !.error = "Comment text is required"])
       ELSE Respond(r, [reqs[r] EXCEPT !.kind = "comment", !.id = id,
                           !.body = body, !.pc = "insert_comment"])
    /\ UNCHANGED <<posts, comments, files, clock>>

\* the INSERT into comments; the handler then sends the UPDATE
DbInsertComment(r) ==
    /\ reqs[r].pc = "insert_comment"
    /\ comments' = InsertComment(comments, reqs[r].id, reqs[r].body.text, clock)
    /\ Respond(r, [reqs[r] EXCEPT !.pc = "update_comments"])
    /\ UNCHANGED <<posts, files, clock>>

\* the UPDATE of comments, and the response
DbUpdateComments(r) ==
    /\ reqs[r].pc = "update_comments"
    /\ posts' = UpdateComments(posts, reqs[r].id)
    /\ LET rows == Returning(posts', reqs[r].id)
       IN  IF CommentStatus(rows) = 404
           THEN Respond(r, [reqs[r] EXCEPT !.pc = "done", !.status = 404,
                               !.error = "Post not found"])
           ELSE Respond(r, [reqs[r] EXCEPT !.pc = "done", !.status = 200,
                               !.value = rows[1].comments])
    /\ UNCHANGED <<comments, files, clock>>

----------------------------------------------------------------------------
(* GET /api/posts and GET /api/posts/:id/comments. The handler sends one   *)
(* SELECT and answers with its rows; before the SELECT it has done nothing *)
(* another request can see, so the handler is one action.                  *)

ListPosts(r) ==
    /\ CanStart(r)
    /\ Respond(r, [reqs[r] EXCEPT !.kind = "list_posts", !.pc = "done",
                      !.status = 200, !.rows = SelectPosts(posts)])
    /\ UNCHANGED <<posts, comments, files, clock>>

ListComments(r, id) ==
    /\ CanStart(r)
    /\ \E rows \in SelectComments(comments, id) :
          Respond(r, [reqs[r] EXCEPT !.kind = "list_comments", !.id = id,
                         !.pc = "done", !.status = 200, !.rows = rows])
    /\ UNCHANGED <<posts, comments, files, clock>>

----------------------------------------------------------------------------
(* A statement that throws: the catch block of the handler that sent it.   *)

CatchMessage(pc) ==
    CASE pc = "insert_post"     -> "Failed to upload file"
      [] pc = "update_likes"    -> "Failed to like post"
      [] pc = "insert_comment"  -> "Failed to comment on post"
      [] pc = "update_comments" -> "Failed to comment on post"

\* pool.query rejects (the store is unreachable) and the statement has no
\* effect
DbFails(r) ==
    /\ reqs[r].pc \in {"insert_post", "update_likes", "insert_comment",
                       "update_comments"}
    /\ Respond(r, [reqs[r] EXCEPT !.pc = "done", !.status = 500,
                      !.error = CatchMessage(reqs[r].pc)])
    /\ UNCHANGED <<posts, comments, files, clock>>

\* the SELECT of GET /api/posts rejects
ListPostsFails(r) ==
    /\ CanStart(r)
    /\ Respond(r, [reqs[r] EXCEPT !.kind = "list_posts", !.pc = "done",
                      !.status = 500, !.error = "Failed to fetch posts"])
    /\ UNCHANGED <<posts, comments, files, clock>>

\* the SELECT of GET /api/posts/:id/comments rejects
ListCommentsFails(r, id) ==
    /\ CanStart(r)
    /\ Respond(r, [reqs[r] EXCEPT !.kind = "list_comments", !.id = id,
                      !.pc = "done", !.status = 500,
                      !.error = "Failed to fetch comments"])
    /\ UNCHANGED <<posts, comments, files, clock>>

----------------------------------------------------------------------------
(* Specifications. *)

\* the store answers every statement
Next ==
    \/ Tick
    \/ \E r \in Req, file \in Files \cup {NoFile} : StartUpload(r, file)
    \/ \E r \in Req : DbInsertPost(r)
    \/ \E r \in Req, id \in Ids : StartLike(r, id)
    \/ \E r \in Req : DbUpdateLikes(r)
    \/ \E r \in Req, id \in Ids, body \in Bodies : StartComment(r, id, body)
    \/ \E r \in Req : DbInsertComment(r)
    \/ \E r \in Req : DbUpdateComments(r)
    \/ \E r \in Req : ListPosts(r)
    \/ \E r \in Req, id \in Ids : ListComments(r, id)

Spec == Init /\ [][Next]_vars

\* the store may fail any statement
NextFault ==
    \/ Next
    \/ \E r \in Req : DbFails(r)
    \/ \E r \in Req : ListPostsFails(r)
    \/ \E r \in Req, id \in Ids : ListCommentsFails(r, id)

SpecFault == Init /\ [][NextFault]_vars

----------------------------------------------------------------------------
(* Properties. They are stated of Spec, where the store answers every      *)
(* statement: a statement that throws ends its request with a 500.         *)

\* a row with this id is in the table
Exists(ps, id) == \E i \in DOMAIN ps : ps[i].id = id

\* this step writes the response of request r
Completes(r) == reqs[r].pc # "done" /\ reqs'[r].pc = "done"

\* the comment rows that reference post p
RowsOf(p) == {i \in DOMAIN comments : comments[i].post_id = p}

\* the like (comment, ...) requests on post p that were answered with 200
Succeeded(kind, p) ==
    {r \in Req : /\ reqs[r].kind = kind /\ reqs[r].id = p
                 /\ reqs[r].pc = "done" /\ reqs[r].status = 200}

\* the text of a JSON body is absent or empty
NoText(body) == ~body.has \/ body.text = ""

\* a content type begins with "image"
BeginsWithImage(m) ==
    /\ Len(m) >= 5
    /\ <<m[1], m[2], m[3], m[4], m[5]>> = <<"i", "m", "a", "g", "e">>

(* C1 *)
LikesAreCounted ==
    \A i \in DOMAIN posts :
        posts[i].likes = Cardinality(Succeeded("like", posts[i].id))

LikeOfExistingPostSucceeds ==
    \A r \in Req :
        (reqs[r].pc = "update_likes" /\ Completes(r) /\ Exists(posts, reqs[r].id)) =>
            /\ reqs'[r].status = 200
            /\ \E i \in DOMAIN posts :
                  /\ posts[i].id = reqs[r].id
                  /\ posts'[i].likes = posts[i].likes + 1
                  /\ reqs'[r].value = posts'[i].likes

\* C1: like requests on an existing post, run concurrently in any
\* interleaving, all succeed and none of their increments is lost: each
\* like whose UPDATE finds the post is answered 200 and raises likes by
\* exactly 1, and in every state the likes of a post equal the number of
\* like requests on it answered 200 (so N likes of a post created with
\* likes 0 leave it at exactly N).
NoLostLikes == []LikesAreCounted /\ [][LikeOfExistingPostSucceeds]_vars

\* two likes of one post overlap (the request that started first got the
\* later count) and both are counted
NoLostLikesWitness ==
    \E r1, r2 \in Req :
        /\ r1 < r2
        /\ r1 \in Succeeded("like", 1) /\ r2 \in Succeeded("like", 1)
        /\ reqs[r1].value = 2 /\ reqs[r2].value = 1
        /\ posts[1].likes = 2

\* C2: in every reachable state the comments counter of each post equals
\* the number of comment rows whose post_id references the post.
CommentsCounterMatchesRows ==
    \A i \in DOMAIN posts :
        posts[i].comments = Cardinality(RowsOf(posts[i].id))

(* C3 *)
SuccessfulCommentIsCounted ==
    \A r \in Req :
        (Completes(r) /\ reqs'[r].kind = "comment" /\ reqs'[r].status = 200) =>
            /\ Len(posts') = Len(posts)
            /\ \E i \in DOMAIN posts :
                  /\ posts[i].id = reqs'[r].id
                  /\ posts'[i].comments = posts[i].comments + 1
                  /\ reqs'[r].value = posts'[i].comments
                  /\ \A j \in DOMAIN posts : j # i => posts'[j] = posts[j]

ListingShowsComments ==
    \A r \in Req :
        (Completes(r) /\ reqs'[r].kind = "list_comments") =>
            LET rows == reqs'[r].rows
                p    == reqs'[r].id
            IN  /\ reqs'[r].status = 200
                /\ Len(rows) = Cardinality(RowsOf(p))
                /\ {rows[k] : k \in 1..Len(rows)} = {comments[i] : i \in RowsOf(p)}
                /\ \A a, b \in 1..Len(rows) :
                      a < b => rows[a].created_at >= rows[b].created_at
                /\ Len(rows) >= Cardinality(Succeeded("comment", p))
                /\ \A q \in Succeeded("comment", p) :
                      \E k \in 1..Len(rows) :
                          rows[k].post_id = p /\ rows[k].text = reqs[q].body.text

\* C3: a comment request answered with success has raised the comments
\* counter of its post by exactly 1 (and of no other post), and a listing
\* of the post's comments made after it holds the comment: the listing is
\* exactly the comment rows of the post, newest first (created_at
\* descending).
CommentCountedAndListed ==
    [][SuccessfulCommentIsCounted /\ ListingShowsComments]_vars

\* a comment succeeded and a listing of its post shows it
CommentCountedAndListedWitness ==
    \E q, r \in Req :
        /\ q \in Succeeded("comment", 1)
        /\ reqs[q].value = 1
        /\ reqs[r].kind = "list_comments" /\ reqs[r].pc = "done" /\ reqs[r].id = 1
        /\ Len(reqs[r].rows) = 1
        /\ reqs[r].rows[1].text = reqs[q].body.text

\* C4, as claimed: a like or comment request whose post id matches no post
\* row is answered 404 "Post not found".
NotFoundForMissingPost ==
    \A r \in Req :
        (/\ reqs[r].kind \in {"like", "comment"}
         /\ reqs[r].pc = "done"
         /\ ~Exists(posts, reqs[r].id)) =>
            /\ reqs[r].status = 404
            /\ reqs[r].error = "Post not found"

NotFoundStep ==
    \A r \in Req :
        (/\ Completes(r)
         /\ reqs'[r].kind \in {"like", "comment"}
         /\ reqs'[r].kind = "comment" => ~NoText(reqs'[r].body)
         /\ ~Exists(posts, reqs'[r].id)) =>
            /\ reqs'[r].status = 404
            /\ reqs'[r].error = "Post not found"
            /\ posts' = posts

\* C4, amended: a like request, or a comment request with a non-empty
\* text, whose post id matches no post row when its UPDATE runs is answered
\* 404 "Post not found" and leaves the post rows unchanged: none is created
\* or modified.
NotFoundForMissingPostWithText == [][NotFoundStep]_vars

\* a like and a comment with text were both answered 404 and there is no
\* post row
NotFoundWitness ==
    \E r1, r2 \in Req :
        /\ reqs[r1].kind = "like" /\ reqs[r1].status = 404
        /\ reqs[r2].kind = "comment" /\ reqs[r2].status = 404
        /\ ~NoText(reqs[r2].body)
        /\ posts = <<>>

(* C5 *)
MissingTextAnswered ==
    /\ \A r \in Req :
          (reqs[r].kind = "comment" /\ NoText(reqs[r].body)) =>
              /\ reqs[r].pc = "done"
              /\ reqs[r].status = 400
              /\ reqs[r].error = "Comment text is required"
    /\ \A i \in DOMAIN comments : comments[i].text # ""

MissingTextWritesNothing ==
    \A r \in Req :
        (/\ reqs[r].pc = "new"
         /\ reqs'[r].kind = "comment"
         /\ NoText(reqs'[r].body)) =>
            /\ comments' = comments
            /\ posts' = posts
            /\ files' = files

\* C5: a comment request whose text is empty or absent is answered 400
\* "Comment text is required" and writes nothing: no comment row is
\* inserted and no counter changes, whether or not the post exists.
MissingTextRejected == []MissingTextAnswered /\ [][MissingTextWritesNothing]_vars

\* an absent text and an empty text were both refused, one of them for a
\* post that exists
MissingTextRejectedWitness ==
    \E r1, r2 \in Req :
        /\ reqs[r1].kind = "comment" /\ ~reqs[r1].body.has
        /\ reqs[r2].kind = "comment" /\ reqs[r2].body.has /\ reqs[r2].body.text = ""
        /\ reqs[r1].status = 400 /\ reqs[r2].status = 400
        /\ Exists(posts, reqs[r2].id)
        /\ comments = <<>>

(* C6 *)
UploadedPostExists ==
    \A r \in Req :
        (reqs[r].kind = "upload" /\ reqs[r].file.present /\ reqs[r].pc = "done") =>
            /\ reqs[r].status = 200
            /\ reqs[r].url = <<"/uploads/">> \o reqs[r].filename
            /\ \E i \in DOMAIN posts :
                  /\ posts[i].url = <<"/uploads/">> \o reqs[r].filename
                  /\ posts[i].type = IF BeginsWithImage(reqs[r].file.mimetype)
                                     THEN "image" ELSE "video"

UploadInsertsPost ==
    \A r \in Req :
        (reqs[r].kind = "upload" /\ reqs[r].file.present /\ Completes(r)) =>
            /\ Len(posts') = Len(posts) + 1
            /\ \A i \in DOMAIN posts : posts'[i] = posts[i]
            /\ \E f \in files : f.name = reqs[r].filename
            /\ LET row == posts'[Len(posts')]
               IN  /\ row.url = <<"/uploads/">> \o reqs[r].filename
                   /\ row.likes = 0
                   /\ row.comments = 0
                   /\ row.type = IF BeginsWithImage(reqs[r].file.mimetype)
                                 THEN "image" ELSE "video"

\* C6: an upload request that carries a file completes by inserting a post
\* row whose url is the URL of the stored file, whose likes and comments
\* are 0, and whose type is image if the declared content type begins with
\* "image" and video otherwise; the row is there once the request has
\* completed.
UploadCreatesPost == []UploadedPostExists /\ [][UploadInsertsPost]_vars

\* an upload of each type has completed
UploadCreatesPostWitness ==
    \E r1, r2 \in Req :
        /\ reqs[r1].kind = "upload" /\ reqs[r1].status = 200
        /\ reqs[r2].kind = "upload" /\ reqs[r2].status = 200
        /\ BeginsWithImage(reqs[r1].file.mimetype)
        /\ ~BeginsWithImage(reqs[r2].file.mimetype)
        /\ \E i, j \in DOMAIN posts : posts[i].type = "image" /\ posts[j].type = "video"

(* C7 *)
NoFileAnswered ==
    \A r \in Req :
        (reqs[r].kind = "upload" /\ ~reqs[r].file.present) =>
            /\ reqs[r].pc = "done"
            /\ reqs[r].status = 400
            /\ reqs[r].error = "No file uploaded"

NoFileWritesNothing ==
    \A r \in Req :
        (/\ reqs[r].pc = "new"
         /\ reqs'[r].kind = "upload"
         /\ ~reqs'[r].file.present) =>
            /\ posts' = posts
            /\ comments' = comments
            /\ files' = files

\* C7: an upload request with no file part is answered 400 "No file
\* uploaded" and writes nothing: the post rows are unchanged.
NoFileRejected == []NoFileAnswered /\ [][NoFileWritesNothing]_vars

\* an upload without a file was refused while an upload with one went
\* through
NoFileRejectedWitness ==
    \E r1, r2 \in Req :
        /\ reqs[r1].kind = "upload" /\ ~reqs[r1].file.present /\ reqs[r1].status = 400
        /\ reqs[r2].kind = "upload" /\ reqs[r2].status = 200
        /\ Len(posts) = 1

(* C8 *)
CommentInsertedFirst ==
    \A r \in Req :
        (/\ reqs[r].kind = "comment"
         /\ ~NoText(reqs[r].body)
         /\ reqs[r].pc \in {"update_comments", "done"}) =>
            \E i \in DOMAIN comments :
                /\ comments[i].post_id = reqs[r].id
                /\ comments[i].text = reqs[r].body.text

OrphanStep ==
    \A r \in Req :
        /\ (reqs[r].pc = "insert_comment" /\ reqs'[r].pc # "insert_comment") =>
              /\ reqs'[r].pc = "update_comments"
              /\ Len(comments') = Len(comments) + 1
              /\ comments'[Len(comments')].post_id = reqs[r].id
              /\ comments'[Len(comments')].text = reqs[r].body.text
        /\ (/\ reqs[r].pc = "update_comments"
            /\ Completes(r)
            /\ ~Exists(posts, reqs[r].id)) =>
              /\ reqs'[r].status = 404
              /\ reqs'[r].error = "Post not found"
              /\ comments' = comments
              /\ posts' = posts
              /\ \E i \in DOMAIN comments' :
                    /\ comments'[i].post_id = reqs[r].id
                    /\ comments'[i].text = reqs[r].body.text
                    /\ ~Exists(posts', comments'[i].post_id)

\* C8: a comment request with a non-empty text on a post id that matches
\* no post row first inserts its comment row and only then finds that the
\* UPDATE matched no row; it is answered 404 "Post not found" and the row
\* stays in the comments table, referencing no post.
OrphanCommentRemains == []CommentInsertedFirst /\ [][OrphanStep]_vars

\* a comment was answered 404 and its row references no post
OrphanCommentRemainsWitness ==
    \E r \in Req :
        /\ reqs[r].kind = "comment" /\ reqs[r].pc = "done" /\ reqs[r].status = 404
        /\ \E i \in DOMAIN comments :
              /\ comments[i].post_id = reqs[r].id
              /\ ~Exists(posts, comments[i].post_id)

\* C9: uploads never collide: any two upload requests store their files
\* under different names, so no stored file is overwritten and no two post
\* rows share a url.
UploadsNeverCollide ==
    /\ \A r1, r2 \in Req :
          (/\ r1 # r2
           /\ reqs[r1].kind = "upload" /\ reqs[r1].file.present
           /\ reqs[r2].kind = "upload" /\ reqs[r2].file.present) =>
              reqs[r1].filename # reqs[r2].filename
    /\ \A i, j \in DOMAIN posts : i # j => posts[i].url # posts[j].url

(* C10 *)
PostsStep ==
    /\ Len(posts') >= Len(posts)
    /\ \A i \in DOMAIN posts :
          /\ posts'[i].id = posts[i].id
          /\ posts'[i].url = posts[i].url
          /\ posts'[i].type = posts[i].type
          /\ posts'[i].likes >= posts[i].likes
          /\ posts'[i].comments >= posts[i].comments
    /\ Len(posts') > Len(posts) =>
          /\ Len(posts') = Len(posts) + 1
          /\ \A i \in DOMAIN posts : posts'[i] = posts[i]
          /\ \E r \in Req : reqs[r].kind = "upload" /\ Completes(r)
    /\ (\E i \in DOMAIN posts : posts'[i] # posts[i]) =>
          /\ Len(posts') = Len(posts)
          /\ \E r \in Req, i \in DOMAIN posts :
                /\ reqs[r].kind \in {"like", "comment"}
                /\ Completes(r)
                /\ posts[i].id = reqs[r].id
                /\ \A j \in DOMAIN posts : j # i => posts'[j] = posts[j]
                /\ IF reqs[r].kind = "like"
                   THEN posts'[i] = [posts[i] EXCEPT !.likes = @ + 1]
                   ELSE posts'[i] = [posts[i] EXCEPT !.comments = @ + 1]

\* C10: in every step, no post row is deleted, the url and type (and id)
\* of a row do not change, and its likes and comments do not decrease;
\* a step of the like or comment handler that changes the post rows raises
\* exactly one counter of exactly one post by exactly 1, and only a step of
\* the upload handler adds a post row.
PostsOnlyGrow == [][PostsStep]_vars

\* two posts exist and one of them was commented on
PostsOnlyGrowWitness ==
    /\ Len(posts) = 2
    /\ \E i \in DOMAIN posts : posts[i].comments = 1
    /\ \E i \in DOMAIN posts : posts[i].comments = 0

====
